---- MODULE Spec2Model ----
(***************************************************************************)
(* Model of src/src/main.c: four FreeRTOS tasks on one core.               *)
(*   led_task     cycles the RGB LED                       (priority 1)    *)
(*   buzzer_task  pulses the buzzer PWM duty               (priority 1)    *)
(*   button_task  polls two buttons, toggles suspend/resume (priority 2)   *)
(*   oled_task    shows the run-state of led/buzzer tasks   (priority 1)   *)
(* Each task is a program counter over its statements; the scheduler is    *)
(* preemptive with fixed priorities.  Time is abstract: a delay ends at    *)
(* some later tick (action Tick), so a higher-priority task may preempt a  *)
(* lower one between any two of its steps.  A step is one statement, or a  *)
(* run of statements that no other task can observe: the sampling, edge    *)
(* test and store of one button (button_task has the highest priority and  *)
(* does not block inside a poll), the pin set-up loop of led_task, and the *)
(* clear/draw/draw/show sequence of oled_task (the only user of the        *)
(* display once the scheduler runs).  The console output is not modelled.  *)
(*                                                                         *)
(* Three specifications share the actions:                                 *)
(*   Spec       abstract time, every button input;                         *)
(*   TimedSpec  time in milliseconds up to MaxTime, no button input, the   *)
(*              statements of a task taking no time;                       *)
(*   FairSpec   abstract time with the scheduler's fairness, a button      *)
(*              being held once pressed.                                   *)
(***************************************************************************)
EXTENDS Naturals, Sequences, FiniteSets

VARIABLES
  pcMain,                      \* position of main()
  status,                      \* return value of each xTaskCreate
  xLedTaskHandle, xBuzzerTaskHandle, xOledTaskHandle,
  tstate,                      \* scheduler's state of each task
  pcLed, current_color_index, gpio,
  pcBuz, duty,
  pcBtn, button_a_pressed_previously, button_b_pressed_previously,
  led_task_suspended, buzzer_task_suspended,
  button_a_currently_pressed, button_b_currently_pressed,
  pcOled, led_state, buzzer_state, led_status_str, buzzer_status_str,
  fb, shown,                   \* display buffer and the frame last presented
  \* ---- history variables (observers; no action reads them in a guard) ----
  ledToggles, buzToggles,      \* run-state changes during the current poll
  aLast, bLast,                \* the level last sampled on each button
  aParity, ledSuspAtFirst,     \* rising edges on A so far (mod 2), run-state before a pair
  bParity, buzSuspAtFirst,
  litHist,                     \* the channels lit, most recent last (at most HistLen)
  frozenIdx, frozenPc,         \* index and position of led_task at its last suspension,
                               \* kept until the next channel is lit ("none": no suspension since)
  dispLog,                     \* state reads and display calls of the current status cycle
  ledChanged, buzChanged,      \* the run-state has changed since this cycle's read of it
  \* ---- time, in milliseconds since the scheduler started ----
  now,                         \* the time (advances only under TimedSpec)
  delayLeft                    \* time left of each blocked task's vTaskDelay

vars == << pcMain, status, xLedTaskHandle, xBuzzerTaskHandle, xOledTaskHandle,
           tstate, pcLed, current_color_index, gpio, pcBuz, duty,
           pcBtn, button_a_pressed_previously, button_b_pressed_previously,
           led_task_suspended, buzzer_task_suspended,
           button_a_currently_pressed, button_b_currently_pressed,
           pcOled, led_state, buzzer_state, led_status_str, buzzer_status_str,
           fb, shown, ledToggles, buzToggles, aLast, bLast, aParity,
           ledSuspAtFirst, bParity, buzSuspAtFirst, litHist,
           frozenIdx, frozenPc, dispLog, ledChanged, buzChanged,
           now, delayLeft >>

mainVars == << pcMain, status, xLedTaskHandle, xBuzzerTaskHandle, xOledTaskHandle >>
ledVars  == << pcLed, current_color_index, gpio >>
buzVars  == << pcBuz, duty >>
btnVars  == << pcBtn, button_a_pressed_previously, button_b_pressed_previously,
               led_task_suspended, buzzer_task_suspended,
               button_a_currently_pressed, button_b_currently_pressed >>
oledVars == << pcOled, led_state, buzzer_state, led_status_str, buzzer_status_str >>
dispVars == << fb, shown >>
pollHist == << ledToggles, buzToggles, aLast, bLast, aParity, ledSuspAtFirst,
               bParity, buzSuspAtFirst >>
ledHist  == << litHist >>
frozen   == << frozenIdx, frozenPc >>
readHist == << ledChanged, buzChanged >>
timeVars == << now, delayLeft >>

(* ------------------------------ constants ------------------------------ *)
NULL == "NULL"
LED_R_PIN == 13
LED_G_PIN == 11
LED_B_PIN == 12
LED_PINS == << LED_R_PIN, LED_G_PIN, LED_B_PIN >>
NUM_COLORS == Len(LED_PINS)
BUZZER_DUTY_ON == 2048
\* Variant: the second write of the buzzer loop repeating the active level.
BuzzerDutyOffStuck == BUZZER_DUTY_ON
\* Line 235: the level that silences the buzzer.
BUZZER_DUTY_OFF == 0
TaskNames == { "led", "buzzer", "button", "oled" }
\* Variant: button_task created with the priority of the other tasks.
PriorityAllEqual(t) == 1

\* Task priorities given to xTaskCreate.
Priority(t) == IF t = "button" THEN 2 ELSE 1
NoLine == ""
BlankFrame == [ y \in {0, 10} |-> NoLine ]
\* How many of the last lit channels the history keeps.
HistLen == 3
\* The arguments of the vTaskDelay calls, in milliseconds.
LED_DELAY_MS == 500
BUZZER_ON_MS == 100
BUZZER_OFF_MS == 900
BUTTON_POLL_MS == 100
OLED_STARTUP_MS == 10
OLED_DELAY_MS == 250
\* The time up to which TimedSpec follows the tasks.
MaxTime == 1200

(* ---------------- scheduler primitives (FreeRTOS kernel) ---------------- *)
Suspended(t) == tstate[t] = "suspended"

\* The run-state the specification speaks of: Running unless Suspended.
RunState(t) == IF tstate[t] = "none" THEN "Unknown"
               ELSE IF Suspended(t) THEN "Suspended" ELSE "Running"

\* xTaskCreate: on success the task is ready and its handle is written.
xTaskCreate(t, ok) == IF ok THEN [tstate EXCEPT ![t] = "ready"] ELSE tstate

\* vTaskSuspend(h) takes h off the ready/delayed list; a NULL handle means the caller.
vTaskSuspend(caller, h) ==
  LET t == IF h = NULL THEN caller ELSE h
  IN  [tstate EXCEPT ![t] = "suspended"]

\* vTaskResume(h) makes a suspended task ready again (a pending delay is not resumed);
\* it does nothing for NULL, for the caller, or for a task that is not suspended.
vTaskResume(caller, h) ==
  IF h # NULL /\ h # caller /\ tstate[h] = "suspended"
  THEN [tstate EXCEPT ![h] = "ready"]
  ELSE tstate

\* vTaskDelay blocks the caller until a later tick,
vTaskDelay(t) == [tstate EXCEPT ![t] = "blocked"]

\* ms milliseconds after the call.
DelayFor(t, ms) == [delayLeft EXCEPT ![t] = ms]

\* Only a blocked task has a delay pending: a task that is suspended or woken
\* leaves the delayed list.
DelaysKept ==
  delayLeft' = [ t \in TaskNames |-> IF tstate'[t] = "blocked" THEN delayLeft[t] ELSE 0 ]

\* eTaskGetState of a valid handle, asked by task caller.
eTaskGetState(caller, h) ==
  IF h = caller THEN "eRunning"
  ELSE IF tstate[h] = "suspended" THEN "eSuspended"
  ELSE IF tstate[h] = "blocked" THEN "eBlocked"
  ELSE "eReady"

SchedulerRunning == pcMain = "scheduler"

\* Fixed-priority preemptive scheduling on one core: a task executes only when it
\* is ready and no task of higher priority is ready.
CanRun(t) ==
  /\ SchedulerRunning
  /\ tstate[t] = "ready"
  /\ \A u \in TaskNames : tstate[u] = "ready" => Priority(u) <= Priority(t)

\* The tick interrupt ends the delay of a blocked task.
Tick ==
  /\ SchedulerRunning
  /\ \E t \in TaskNames :
        /\ tstate[t] = "blocked"
        /\ tstate' = [tstate EXCEPT ![t] = "ready"]
  /\ DelaysKept
  /\ UNCHANGED << readHist, now, mainVars, ledVars, buzVars, btnVars, oledVars, dispVars,
                  pollHist, ledHist, frozen, dispLog >>

(* ------------------------------ display -------------------------------- *)
ssd1306_clear == BlankFrame
ssd1306_draw_string(buf, y, s) == [buf EXCEPT ![y] = s]

(* ------------------------------- main ---------------------------------- *)
Init ==
  /\ pcMain = "SSD1306_Init"
  /\ status = [ t \in TaskNames |-> "none" ]
  /\ xLedTaskHandle = NULL
  /\ xBuzzerTaskHandle = NULL
  /\ xOledTaskHandle = NULL
  /\ tstate = [ t \in TaskNames |-> "none" ]
  /\ pcLed = "init" /\ current_color_index = 0
  /\ gpio = [ p \in { LED_R_PIN, LED_G_PIN, LED_B_PIN } |-> 0 ]
  /\ pcBuz = "on" /\ duty = 0
  /\ pcBtn = "init"
  /\ button_a_pressed_previously = FALSE
  /\ button_b_pressed_previously = FALSE
  /\ led_task_suspended = FALSE
  /\ buzzer_task_suspended = FALSE
  /\ button_a_currently_pressed = FALSE
  /\ button_b_currently_pressed = FALSE
  /\ pcOled = "startup"
  /\ led_state = "unset" /\ buzzer_state = "unset"
  /\ led_status_str = NoLine /\ buzzer_status_str = NoLine
  /\ fb = BlankFrame /\ shown = BlankFrame
  /\ ledToggles = 0 /\ buzToggles = 0
  /\ aLast = FALSE /\ bLast = FALSE
  /\ aParity = 0 /\ ledSuspAtFirst = FALSE
  /\ bParity = 0 /\ buzSuspAtFirst = FALSE
  /\ litHist = << >>
  /\ frozenIdx = 0 /\ frozenPc = "none"
  /\ dispLog = << >>
  /\ ledChanged = FALSE /\ buzChanged = FALSE
  /\ now = 0
  /\ delayLeft = [ t \in TaskNames |-> 0 ]

\* SSD1306_Init (called first by main): a failed ssd1306_init halts in while(1).
SSD1306_Init ==
  /\ pcMain = "SSD1306_Init"
  /\ \E ok \in BOOLEAN :
        IF ok
        THEN /\ fb' = ssd1306_draw_string(ssd1306_clear, 0, "Display Init...")
             /\ shown' = fb'
             /\ dispLog' = dispLog \o << "main.clear", "main.draw0", "main.show" >>
             /\ pcMain' = "buzzer_pwm_init"
        ELSE /\ pcMain' = "halt_display"
             /\ UNCHANGED << fb, shown, dispLog >>
  /\ UNCHANGED << readHist, timeVars, status, xLedTaskHandle, xBuzzerTaskHandle, xOledTaskHandle,
                  tstate, ledVars, buzVars, btnVars, oledVars,
                  pollHist, ledHist, frozen >>

\* buzzer_pwm_init: the PWM slice starts with the buzzer off.
buzzer_pwm_init ==
  /\ pcMain = "buzzer_pwm_init"
  /\ duty' = 0
  /\ pcMain' = "create_led"
  /\ UNCHANGED << readHist, timeVars, status, xLedTaskHandle, xBuzzerTaskHandle, xOledTaskHandle,
                  tstate, ledVars, pcBuz, btnVars, oledVars, dispVars,
                  pollHist, ledHist, frozen, dispLog >>

\* The four xTaskCreate calls of main, in source order; each may fail.
CreateLed ==
  /\ pcMain = "create_led"
  /\ \E ok \in BOOLEAN :
        /\ status' = [status EXCEPT !["led"] = IF ok THEN "pdPASS" ELSE "fail"]
        /\ tstate' = xTaskCreate("led", ok)
        /\ xLedTaskHandle' = IF ok THEN "led" ELSE xLedTaskHandle
  /\ pcMain' = "create_buzzer"
  /\ UNCHANGED << readHist, timeVars, xBuzzerTaskHandle, xOledTaskHandle, ledVars, buzVars, btnVars,
                  oledVars, dispVars, pollHist, ledHist, frozen, dispLog >>

\* Variant: the buzzer task created with the address of the LED task's handle.
CreateBuzzerIntoLedHandle ==
  /\ pcMain = "create_buzzer"
  /\ \E ok \in BOOLEAN :
        /\ status' = [status EXCEPT !["buzzer"] = IF ok THEN "pdPASS" ELSE "fail"]
        /\ tstate' = xTaskCreate("buzzer", ok)
        /\ xLedTaskHandle' = IF ok THEN "buzzer" ELSE xLedTaskHandle
  /\ pcMain' = "create_button"
  /\ UNCHANGED << readHist, timeVars, xBuzzerTaskHandle, xOledTaskHandle, ledVars, buzVars, btnVars,
                  oledVars, dispVars, pollHist, ledHist, frozen, dispLog >>

CreateBuzzer ==
  /\ pcMain = "create_buzzer"
  /\ \E ok \in BOOLEAN :
        /\ status' = [status EXCEPT !["buzzer"] = IF ok THEN "pdPASS" ELSE "fail"]
        /\ tstate' = xTaskCreate("buzzer", ok)
        /\ xBuzzerTaskHandle' = IF ok THEN "buzzer" ELSE xBuzzerTaskHandle
  /\ pcMain' = "create_button"
  /\ UNCHANGED << readHist, timeVars, xLedTaskHandle, xOledTaskHandle, ledVars, buzVars, btnVars,
                  oledVars, dispVars, pollHist, ledHist, frozen, dispLog >>

CreateButton ==
  /\ pcMain = "create_button"
  /\ \E ok \in BOOLEAN :
        /\ status' = [status EXCEPT !["button"] = IF ok THEN "pdPASS" ELSE "fail"]
        /\ tstate' = xTaskCreate("button", ok)
  /\ pcMain' = "create_oled"
  /\ UNCHANGED << readHist, timeVars, xLedTaskHandle, xBuzzerTaskHandle, xOledTaskHandle, ledVars,
                  buzVars, btnVars, oledVars, dispVars, pollHist, ledHist,
                  frozen, dispLog >>

CreateOled ==
  /\ pcMain = "create_oled"
  /\ \E ok \in BOOLEAN :
        /\ status' = [status EXCEPT !["oled"] = IF ok THEN "pdPASS" ELSE "fail"]
        /\ tstate' = xTaskCreate("oled", ok)
        /\ xOledTaskHandle' = IF ok THEN "oled" ELSE xOledTaskHandle
  /\ pcMain' = "check"
  /\ UNCHANGED << readHist, timeVars, xLedTaskHandle, xBuzzerTaskHandle, ledVars, buzVars, btnVars,
                  oledVars, dispVars, pollHist, ledHist, frozen, dispLog >>

\* Variant: the test of line 89 without the status of button_task.
AllCreatedButButton == \A t \in TaskNames \ { "button" } : status[t] = "pdPASS"

\* The test of line 89.
AllCreated == \A t \in TaskNames : status[t] = "pdPASS"

\* On failure main shows "Erro Task!" and halts; otherwise it starts the scheduler.
MainCheck ==
  /\ pcMain = "check"
  /\ IF ~AllCreated
     THEN /\ fb' = ssd1306_draw_string(ssd1306_clear, 0, "Erro Task!")
          /\ shown' = fb'
          /\ dispLog' = dispLog \o << "main.clear", "main.draw0", "main.show" >>
          /\ pcMain' = "halt_tasks"
     ELSE /\ pcMain' = "vTaskStartScheduler"
          /\ UNCHANGED << fb, shown, dispLog >>
  /\ UNCHANGED << readHist, timeVars, status, xLedTaskHandle, xBuzzerTaskHandle, xOledTaskHandle,
                  tstate, ledVars, buzVars, btnVars, oledVars,
                  pollHist, ledHist, frozen >>

vTaskStartScheduler ==
  /\ pcMain = "vTaskStartScheduler"
  /\ pcMain' = "scheduler"
  /\ dispLog' = << >>
  /\ UNCHANGED << readHist, timeVars, status, xLedTaskHandle, xBuzzerTaskHandle, xOledTaskHandle,
                  tstate, ledVars, buzVars, btnVars, oledVars, dispVars,
                  pollHist, ledHist, frozen >>

main == \/ SSD1306_Init \/ buzzer_pwm_init \/ CreateLed \/ CreateBuzzer
        \/ CreateButton \/ CreateOled \/ MainCheck \/ vTaskStartScheduler

(* ------------------------------ led_task ------------------------------- *)
\* Variants of the index step: skipping a colour, and not advancing.
LedNextIndexSkip(i) == (i + 2) % NUM_COLORS
LedNextIndexStay(i) == i % NUM_COLORS

\* Line 208: the next colour index.
LedNextIndex(i) == (i + 1) % NUM_COLORS

\* LED_PINS[i] for a C (0-based) index.
LedPin(i) == LED_PINS[i + 1]

\* The last (at most HistLen) channels lit, after lighting channel c.
Remember(h, c) == IF Len(h) < HistLen THEN Append(h, c) ELSE Append(Tail(h), c)

\* Lines 197-202: every LED pin is made an output and driven low.
LedInit ==
  /\ pcLed = "init" /\ CanRun("led")
  /\ gpio' = [ p \in DOMAIN gpio |-> 0 ]
  /\ pcLed' = "off"
  /\ UNCHANGED << readHist, timeVars, mainVars, tstate, current_color_index, buzVars, btnVars,
                  oledVars, dispVars, pollHist, ledHist, frozen, dispLog >>

\* Line 206: the current colour is switched off.
LedOff ==
  /\ pcLed = "off" /\ CanRun("led")
  /\ gpio' = [gpio EXCEPT ![LedPin(current_color_index)] = 0]
  /\ pcLed' = "adv"
  /\ UNCHANGED << readHist, timeVars, mainVars, tstate, current_color_index, buzVars, btnVars,
                  oledVars, dispVars, pollHist, ledHist, frozen, dispLog >>

\* Line 208.
LedAdvance ==
  /\ pcLed = "adv" /\ CanRun("led")
  /\ current_color_index' = LedNextIndex(current_color_index)
  /\ pcLed' = "on"
  /\ UNCHANGED << readHist, timeVars, mainVars, tstate, gpio, buzVars, btnVars,
                  oledVars, dispVars, pollHist, ledHist, frozen, dispLog >>

\* Line 210: the new colour is switched on.
LedOn ==
  /\ pcLed = "on" /\ CanRun("led")
  /\ gpio' = [gpio EXCEPT ![LedPin(current_color_index)] = 1]
  /\ pcLed' = "delay"
  /\ litHist' = Remember(litHist, current_color_index)
  /\ frozenPc' = "none" /\ frozenIdx' = 0
  /\ UNCHANGED << readHist, timeVars, mainVars, tstate, current_color_index, buzVars, btnVars,
                  oledVars, dispVars, pollHist, dispLog >>

\* Variant: the task suspends itself instead of delaying.
LedPeriodSuspendSelf == vTaskSuspend("led", NULL)

\* Line 212: vTaskDelay(500 ms).
LedPeriodDelay == vTaskDelay("led")

\* Variant: a period of twice the length.
LedPeriodTimerDouble == DelayFor("led", 2 * LED_DELAY_MS)

LedPeriodTimer == DelayFor("led", LED_DELAY_MS)

LedDelay ==
  /\ pcLed = "delay" /\ CanRun("led")
  /\ tstate' = LedPeriodDelay
  /\ delayLeft' = LedPeriodTimer
  /\ pcLed' = "off"
  /\ UNCHANGED << readHist, now, mainVars, current_color_index, gpio, buzVars, btnVars,
                  oledVars, dispVars, pollHist, ledHist, frozen, dispLog >>

led_task == LedInit \/ LedOff \/ LedAdvance \/ LedOn \/ LedDelay

(* ----------------------------- buzzer_task ----------------------------- *)
\* Line 233.
BuzOn ==
  /\ pcBuz = "on" /\ CanRun("buzzer")
  /\ duty' = BUZZER_DUTY_ON
  /\ pcBuz' = "delay_on"
  /\ UNCHANGED << readHist, timeVars, mainVars, tstate, ledVars, btnVars, oledVars, dispVars,
                  pollHist, ledHist, frozen, dispLog >>

\* Line 234: vTaskDelay(100 ms).
BuzDelayOn ==
  /\ pcBuz = "delay_on" /\ CanRun("buzzer")
  /\ tstate' = vTaskDelay("buzzer")
  /\ delayLeft' = DelayFor("buzzer", BUZZER_ON_MS)
  /\ pcBuz' = "off"
  /\ UNCHANGED << readHist, now, mainVars, ledVars, duty, btnVars, oledVars, dispVars,
                  pollHist, ledHist, frozen, dispLog >>

\* Line 235.
BuzOff ==
  /\ pcBuz = "off" /\ CanRun("buzzer")
  /\ duty' = BUZZER_DUTY_OFF
  /\ pcBuz' = "delay_off"
  /\ UNCHANGED << readHist, timeVars, mainVars, tstate, ledVars, btnVars, oledVars, dispVars,
                  pollHist, ledHist, frozen, dispLog >>

\* Line 237: vTaskDelay(900 ms).
BuzDelayOff ==
  /\ pcBuz = "delay_off" /\ CanRun("buzzer")
  /\ tstate' = vTaskDelay("buzzer")
  /\ delayLeft' = DelayFor("buzzer", BUZZER_OFF_MS)
  /\ pcBuz' = "on"
  /\ UNCHANGED << readHist, now, mainVars, ledVars, duty, btnVars, oledVars, dispVars,
                  pollHist, ledHist, frozen, dispLog >>

buzzer_task == BuzOn \/ BuzDelayOn \/ BuzOff \/ BuzDelayOff

(* ----------------------------- button_task ----------------------------- *)
\* Variants of the edge test: level-triggered, and any change of level.
ButtonEdgeLevel(currently, previously) == currently
ButtonEdgeAnyChange(currently, previously) == currently # previously

\* Lines 279 and 300: pressed now and not pressed at the previous poll.
ButtonEdge(currently, previously) == currently /\ ~previously

\* Variant: button B acting on the LED task's handle.
ButtonBTargetLed == xLedTaskHandle

\* Variant: button A acting on the buzzer task's handle.
ButtonATargetBuzzer == xBuzzerTaskHandle

\* Variant: button A acting through a NULL handle.
ButtonATargetNull == NULL

\* The handles button_task passes to vTaskSuspend / vTaskResume.
ButtonATarget == xLedTaskHandle
ButtonBTarget == xBuzzerTaskHandle

\* Variant: the sample stored only when it toggled the task.
PreviousLevelOnEdgeOnly(currently, previously) ==
  IF ButtonEdge(currently, previously) THEN currently ELSE previously

\* Lines 294 and 315: the sample becomes the previous level of the next poll.
PreviousLevel(currently, previously) == currently

\* Lines 276 and 297: the buttons are active low.
ButtonPressed(level) == ~level

\* History: run-state changes of the two controllable tasks made by this step,
\* and where led_task stood when it was suspended ("on": between the index step
\* of line 208 and the switch-on of line 210; "other": anywhere else).
CountToggles ==
  /\ ledToggles' = IF Suspended("led")' # Suspended("led")
                   THEN ledToggles + 1 ELSE ledToggles
  /\ buzToggles' = IF Suspended("buzzer")' # Suspended("buzzer")
                   THEN buzToggles + 1 ELSE buzToggles

\* History: a change of run-state between oled_task's read of it and the
\* presentation of the frame.
MarkChanged ==
  /\ ledChanged' = ( \/ ledChanged
                     \/ /\ pcOled \in { "read_buz", "render" }
                        /\ Suspended("led")' # Suspended("led") )
  /\ buzChanged' = ( \/ buzChanged
                     \/ /\ pcOled = "render"
                        /\ Suspended("buzzer")' # Suspended("buzzer") )

Freeze ==
  IF ~Suspended("led") /\ Suspended("led")'
  THEN /\ frozenIdx' = current_color_index
       /\ frozenPc' = IF pcLed = "on" THEN "on" ELSE "other"
  ELSE UNCHANGED frozen

\* Lines 259-271: pin set-up and the initial values of the locals.
BtnInit ==
  /\ pcBtn = "init" /\ CanRun("button")
  /\ button_a_pressed_previously' = FALSE
  /\ button_b_pressed_previously' = FALSE
  /\ led_task_suspended' = FALSE
  /\ buzzer_task_suspended' = FALSE
  /\ pcBtn' = "pollA"
  /\ UNCHANGED << readHist, timeVars, mainVars, tstate, ledVars, buzVars, oledVars, dispVars,
                  button_a_currently_pressed, button_b_currently_pressed,
                  pollHist, ledHist, frozen, dispLog >>

\* Lines 276-294: button A is sampled; on a rising edge the LED task is resumed
\* or suspended, as the local flag says; the sample becomes the previous level.
BtnPollA ==
  /\ pcBtn = "pollA" /\ CanRun("button")
  /\ \E level \in BOOLEAN : button_a_currently_pressed' = ButtonPressed(level)
  /\ IF ButtonEdge(button_a_currently_pressed', button_a_pressed_previously)
     THEN IF led_task_suspended
          THEN /\ tstate' = vTaskResume("button", ButtonATarget)
               /\ led_task_suspended' = FALSE
          ELSE /\ tstate' = vTaskSuspend("button", ButtonATarget)
               /\ led_task_suspended' = TRUE
     ELSE UNCHANGED << tstate, led_task_suspended >>
  /\ button_a_pressed_previously' =
        PreviousLevel(button_a_currently_pressed', button_a_pressed_previously)
  /\ pcBtn' = "pollB"
  /\ CountToggles /\ Freeze /\ DelaysKept /\ MarkChanged
  /\ IF button_a_currently_pressed' /\ ~aLast
     THEN IF aParity = 0
          THEN aParity' = 1 /\ ledSuspAtFirst' = Suspended("led")
          ELSE aParity' = 0 /\ UNCHANGED ledSuspAtFirst
     ELSE UNCHANGED << aParity, ledSuspAtFirst >>
  /\ aLast' = button_a_currently_pressed'
  /\ UNCHANGED << now, mainVars, ledVars, buzVars, oledVars, dispVars,
                  button_b_pressed_previously, buzzer_task_suspended,
                  button_b_currently_pressed,
                  bLast, bParity, buzSuspAtFirst, ledHist, dispLog >>

\* Lines 297-315: the same for button B and the buzzer task.
BtnPollB ==
  /\ pcBtn = "pollB" /\ CanRun("button")
  /\ \E level \in BOOLEAN : button_b_currently_pressed' = ButtonPressed(level)
  /\ IF ButtonEdge(button_b_currently_pressed', button_b_pressed_previously)
     THEN IF buzzer_task_suspended
          THEN /\ tstate' = vTaskResume("button", ButtonBTarget)
               /\ buzzer_task_suspended' = FALSE
          ELSE /\ tstate' = vTaskSuspend("button", ButtonBTarget)
               /\ buzzer_task_suspended' = TRUE
     ELSE UNCHANGED << tstate, buzzer_task_suspended >>
  /\ button_b_pressed_previously' =
        PreviousLevel(button_b_currently_pressed', button_b_pressed_previously)
  /\ pcBtn' = "delay"
  /\ CountToggles /\ Freeze /\ DelaysKept /\ MarkChanged
  /\ IF button_b_currently_pressed' /\ ~bLast
     THEN IF bParity = 0
          THEN bParity' = 1 /\ buzSuspAtFirst' = Suspended("buzzer")
          ELSE bParity' = 0 /\ UNCHANGED buzSuspAtFirst
     ELSE UNCHANGED << bParity, buzSuspAtFirst >>
  /\ bLast' = button_b_currently_pressed'
  /\ UNCHANGED << now, mainVars, ledVars, buzVars, oledVars, dispVars,
                  button_a_pressed_previously, led_task_suspended,
                  button_a_currently_pressed,
                  aLast, aParity, ledSuspAtFirst, ledHist, dispLog >>

\* Line 317: vTaskDelay(100 ms) ends the poll.
BtnDelay ==
  /\ pcBtn = "delay" /\ CanRun("button")
  /\ tstate' = vTaskDelay("button")
  /\ delayLeft' = DelayFor("button", BUTTON_POLL_MS)
  /\ pcBtn' = "pollA"
  /\ ledToggles' = 0 /\ buzToggles' = 0
  /\ UNCHANGED << readHist, now, mainVars, ledVars, buzVars, oledVars, dispVars,
                  button_a_pressed_previously, button_b_pressed_previously,
                  led_task_suspended, buzzer_task_suspended,
                  button_a_currently_pressed, button_b_currently_pressed,
                  aLast, bLast, aParity, ledSuspAtFirst, bParity, buzSuspAtFirst,
                  ledHist, frozen, dispLog >>

button_task == BtnInit \/ BtnPollA \/ BtnPollB \/ BtnDelay

(* ------------------------------ oled_task ------------------------------ *)
\* Variant: the two labels exchanged.
LedStatusStrSwapped(st) ==
  IF st # "eInvalid"
  THEN IF st = "eSuspended" THEN "Task LED: Run" ELSE "Task LED: Suspended"
  ELSE "LED: Handle Nulo"

\* Variant: the test for an invalid state inverted.
LedStatusStrInvalidInverted(st) ==
  IF st = "eInvalid"
  THEN IF st = "eSuspended" THEN "Task LED: Suspended" ELSE "Task LED: Run"
  ELSE "LED: Handle Nulo"

\* Lines 376-383 and 387-394: the text of a status line.
LedStatusStr(st) ==
  IF st # "eInvalid"
  THEN IF st = "eSuspended" THEN "Task LED: Suspended" ELSE "Task LED: Run"
  ELSE "LED: Handle Nulo"

\* Variant: the buzzer line drawn without looking at the state read.
BuzzerStatusStrAlwaysRun(st) == "Task Buzz: Run"

BuzzerStatusStr(st) ==
  IF st # "eInvalid"
  THEN IF st = "eSuspended" THEN "Task Buzz: Suspended" ELSE "Task Buzz: Run"
  ELSE "Buzzer: Handle Nulo"

\* Variant: the test of the startup poll inverted.
OledMustWaitInverted == xLedTaskHandle # NULL \/ xBuzzerTaskHandle # NULL

\* Line 344: the condition of the startup poll.
OledMustWait == xLedTaskHandle = NULL \/ xBuzzerTaskHandle = NULL

\* Lines 344-349: wait 10 ms while a handle is still NULL.
OledStartup ==
  /\ pcOled = "startup" /\ CanRun("oled")
  /\ IF OledMustWait
     THEN /\ tstate' = vTaskDelay("oled")
          /\ delayLeft' = DelayFor("oled", OLED_STARTUP_MS)
          /\ pcOled' = "startup"
     ELSE /\ pcOled' = "read_led"
          /\ UNCHANGED << tstate, delayLeft >>
  /\ UNCHANGED << readHist, now, mainVars, ledVars, buzVars, btnVars, dispVars,
                  led_state, buzzer_state, led_status_str, buzzer_status_str,
                  pollHist, ledHist, frozen, dispLog >>

\* Lines 354-361.
OledReadLed ==
  /\ pcOled = "read_led" /\ CanRun("oled")
  /\ led_state' = IF xLedTaskHandle # NULL
                  THEN eTaskGetState("oled", xLedTaskHandle)
                  ELSE "eInvalid"
  /\ pcOled' = "read_buz"
  /\ dispLog' = Append(dispLog, "read_led")
  /\ ledChanged' = FALSE
  /\ UNCHANGED << buzChanged, timeVars, mainVars, tstate, ledVars, buzVars, btnVars, dispVars,
                  buzzer_state, led_status_str, buzzer_status_str,
                  pollHist, ledHist, frozen >>

\* Lines 364-371.
OledReadBuzzer ==
  /\ pcOled = "read_buz" /\ CanRun("oled")
  /\ buzzer_state' = IF xBuzzerTaskHandle # NULL
                     THEN eTaskGetState("oled", xBuzzerTaskHandle)
                     ELSE "eInvalid"
  /\ pcOled' = "render"
  /\ dispLog' = Append(dispLog, "read_buz")
  /\ buzChanged' = FALSE
  /\ UNCHANGED << ledChanged, timeVars, mainVars, tstate, ledVars, buzVars, btnVars, dispVars,
                  led_state, led_status_str, buzzer_status_str,
                  pollHist, ledHist, frozen >>

\* Variant: the frame presented before the second line is drawn.
RenderCallsShowEarly == << "clear", "draw0", "show", "draw1" >>

\* Lines 373, 384, 395, 397: the display calls of one status cycle, in order.
RenderCalls == << "clear", "draw0", "draw1", "show" >>

\* The effect of one display call on the display d = [fb, shown]:
\* the LED line is drawn at y = 0, the buzzer line at y = 10.
DisplayCall(d, call, line0, line1) ==
  IF call = "clear" THEN [d EXCEPT !.fb = ssd1306_clear]
  ELSE IF call = "draw0" THEN [d EXCEPT !.fb = ssd1306_draw_string(d.fb, 0, line0)]
  ELSE IF call = "draw1" THEN [d EXCEPT !.fb = ssd1306_draw_string(d.fb, 10, line1)]
  ELSE [d EXCEPT !.shown = d.fb]

RECURSIVE DisplayCalls(_, _, _, _)
DisplayCalls(d, calls, line0, line1) ==
  IF calls = << >> THEN d
  ELSE DisplayCalls(DisplayCall(d, Head(calls), line0, line1), Tail(calls),
                    line0, line1)

\* Lines 373-397: the status lines are formatted from the states read in this
\* cycle, the frame is cleared, both lines are drawn and the buffer is presented.
OledRender ==
  /\ pcOled = "render" /\ CanRun("oled")
  /\ led_status_str' = LedStatusStr(led_state)
  /\ buzzer_status_str' = BuzzerStatusStr(buzzer_state)
  /\ LET d == DisplayCalls([fb |-> fb, shown |-> shown], RenderCalls,
                           led_status_str', buzzer_status_str')
     IN  fb' = d.fb /\ shown' = d.shown
  /\ dispLog' = dispLog \o RenderCalls
  /\ ledChanged' = FALSE /\ buzChanged' = FALSE
  /\ pcOled' = "delay"
  /\ UNCHANGED << timeVars, mainVars, tstate, ledVars, buzVars, btnVars,
                  led_state, buzzer_state, pollHist, ledHist, frozen >>

\* Line 399: vTaskDelay(250 ms) ends the status cycle.
OledDelay ==
  /\ pcOled = "delay" /\ CanRun("oled")
  /\ tstate' = vTaskDelay("oled")
  /\ delayLeft' = DelayFor("oled", OLED_DELAY_MS)
  /\ pcOled' = "read_led"
  /\ dispLog' = << >>
  /\ UNCHANGED << readHist, now, mainVars, ledVars, buzVars, btnVars, dispVars,
                  led_state, buzzer_state, led_status_str, buzzer_status_str,
                  pollHist, ledHist, frozen >>

oled_task == OledStartup \/ OledReadLed \/ OledReadBuzzer \/ OledRender
             \/ OledDelay

(* --------------------------- specification ----------------------------- *)
Next == main \/ Tick \/ led_task \/ buzzer_task \/ button_task \/ oled_task

Spec == Init /\ [][Next]_vars

(* ---------------------- specification with fairness -------------------- *)
PollAStep == pcBtn = "pollA" /\ pcBtn' = "pollB"
PollBStep == pcBtn = "pollB" /\ pcBtn' = "delay"

\* The tick that ends the delay of task t.
TickOf(t) == Tick /\ tstate[t] = "blocked" /\ tstate'[t] = "ready"

\* The scenarios in which a button, once pressed, is held: each controllable task
\* runs until its button is pressed, at any point of its loop, and is Suspended
\* for ever after.
button_task_press_and_hold ==
  /\ button_task
  /\ PollAStep => (aLast => button_a_currently_pressed')
  /\ PollBStep => (bLast => button_b_currently_pressed')

FairNext == main \/ Tick \/ led_task \/ buzzer_task \/ button_task_press_and_hold
            \/ oled_task

\* What the scheduler is assumed to guarantee to button_task and oled_task: time
\* passes, so their pending delays end; the task of highest priority runs when
\* it is ready; oled_task runs when it is ready again and again (a poll of
\* button_task is a few statements every 100 ms, and the tasks of equal priority
\* share the processor in time slices).  Nothing is assumed of led_task and
\* buzzer_task.
Fairness ==
  /\ WF_vars(TickOf("button")) /\ WF_vars(TickOf("oled"))
  /\ WF_vars(button_task_press_and_hold)
  /\ SF_vars(oled_task)

FairSpec == Init /\ [][FairNext]_vars /\ Fairness

(* ------------------------ specification with time ---------------------- *)
\* The scenario without button input: every sample finds both buttons released.
button_task_no_input ==
  /\ button_task
  /\ ~button_a_currently_pressed' /\ ~button_b_currently_pressed'

Idle == SchedulerRunning /\ \A t \in TaskNames : tstate[t] # "ready"
Min(S) == CHOOSE x \in S : \A y \in S : x <= y

\* Time passes while no task is ready (the statements of a task take no time
\* compared with its delays): the clock moves to the end of the shortest pending
\* delay, and every task whose delay ends there becomes ready.
TickMs ==
  /\ Idle
  /\ \E t \in TaskNames : tstate[t] = "blocked"
  /\ LET d == Min({ delayLeft[t] : t \in { u \in TaskNames : tstate[u] = "blocked" } })
     IN  /\ now + d <= MaxTime
         /\ now' = now + d
         /\ tstate' = [ t \in TaskNames |->
                          IF tstate[t] = "blocked" /\ delayLeft[t] = d
                          THEN "ready" ELSE tstate[t] ]
         /\ delayLeft' = [ t \in TaskNames |->
                             IF tstate[t] = "blocked" THEN delayLeft[t] - d ELSE 0 ]
  /\ UNCHANGED << readHist, mainVars, ledVars, buzVars, btnVars, oledVars, dispVars,
                  pollHist, ledHist, frozen, dispLog >>

TimedNext == main \/ TickMs \/ led_task \/ buzzer_task \/ button_task_no_input
             \/ oled_task

TimedSpec == Init /\ [][TimedNext]_vars

(* ============================== properties ============================= *)
Controllable == { "led", "buzzer" }
RunStateChanged(t) == RunState(t)' # RunState(t) /\ tstate[t] # "none"
LitChannels == { i \in 0 .. NUM_COLORS - 1 : gpio[LedPin(i)] = 1 }

\* C1: in every poll, the LED task's run-state changes exactly when button A's
\* sampled level is pressed and its previous sample was not pressed, and the
\* buzzer task's exactly when that holds of button B; no run-state changes on a
\* falling edge, on a held level, or outside the poll of its button.
C1_ToggleOnRisingEdgeOnly ==
  [][ /\ RunStateChanged("led")
           <=> (PollAStep /\ button_a_currently_pressed' /\ ~aLast)
      /\ RunStateChanged("buzzer")
           <=> (PollBStep /\ button_b_currently_pressed' /\ ~bLast)
      /\ ledToggles' <= 1 /\ buzToggles' <= 1 ]_vars

\* A poll in which A rose (one change of the LED task) while B was held pressed
\* (no change of the buzzer task).
C1_Witness ==
  /\ pcBtn = "delay"
  /\ ledToggles = 1 /\ button_a_currently_pressed
  /\ buzToggles = 0 /\ button_b_currently_pressed

\* C2: a rising edge on A while the LED task is Running leaves it Suspended; the
\* poll of A never changes the buzzer task's state and the poll of B never the
\* LED task's, and a rising edge on B changes the buzzer task's run-state.
C2_EdgeActsOnOwnTaskOnly ==
  [][ /\ (PollAStep /\ button_a_currently_pressed' /\ ~aLast
            /\ RunState("led") = "Running")
           => RunState("led")' = "Suspended"
      /\ PollAStep => tstate'["buzzer"] = tstate["buzzer"]
      /\ PollBStep => tstate'["led"] = tstate["led"]
      /\ (PollBStep /\ button_b_currently_pressed' /\ ~bLast)
           => RunState("buzzer")' # RunState("buzzer") ]_vars

\* Both buttons rose in the same poll: the LED task was suspended by it and the
\* buzzer task resumed.
C2_Witness ==
  /\ pcBtn = "delay"
  /\ ledToggles = 1 /\ buzToggles = 1
  /\ Suspended("led") /\ ~Suspended("buzzer")

\* C3: after every second rising edge on a button, its task has the run-state it
\* had before the first of the two.
C3_TwoPressesRoundTrip ==
  /\ aParity = 0 => Suspended("led") = ledSuspAtFirst
  /\ bParity = 0 => Suspended("buzzer") = buzSuspAtFirst

\* The LED task was suspended between its index step and the switch-on, and a
\* second press has resumed it, while button B was pressed once in between.
C3_Witness ==
  /\ aParity = 0 /\ ~Suspended("led") /\ frozenPc = "on"
  /\ bParity = 1 /\ Suspended("buzzer")

\* C4: a controllable task is Running when created; its run-state changes only in
\* a step of button_task; no step of another task changes whether any task is
\* suspended, and the tasks other than led and buzzer are never suspended.
C4_OnlyButtonTaskChangesRunState ==
  [][ /\ \A t \in Controllable :
           /\ (tstate[t] = "none" /\ tstate'[t] # "none") => RunState(t)' = "Running"
           /\ RunStateChanged(t) => (CanRun("button") /\ (PollAStep \/ PollBStep))
      /\ (pcBtn' = pcBtn) => \A t \in TaskNames : Suspended(t)' = Suspended(t)
      /\ \A t \in TaskNames \ Controllable : ~Suspended(t)' ]_vars

\* Both controllable tasks are Suspended and oled_task has shown a frame.
C4_Witness ==
  /\ Suspended("led") /\ Suspended("buzzer")
  /\ pcOled = "delay" /\ led_state = "eSuspended"

\* C5: at most one LED channel is on at any time; during the period's delay
\* exactly the channel current_color_index is on; each channel lit is the cyclic
\* successor of the one lit before, so NUM_COLORS consecutive periods light
\* pairwise different channels.
C5_OneChannelCyclicOrder ==
  /\ Cardinality(LitChannels) <= 1
  /\ pcLed = "delay" => LitChannels = { current_color_index }
  /\ (pcLed = "off" /\ litHist # << >>) => LitChannels = { current_color_index }
  /\ \A k \in 1 .. Len(litHist) - 1 :
        litHist[k + 1] = (litHist[k] + 1) % NUM_COLORS
  /\ \A j, k \in 1 .. Len(litHist) :
        (j < k /\ k - j < NUM_COLORS) => litHist[j] # litHist[k]

\* Three periods have passed and the cycle has wrapped around to channel 0.
C5_Witness ==
  /\ Len(litHist) = HistLen /\ pcLed = "off" /\ tstate["led"] = "blocked"
  /\ current_color_index = 0 /\ LitChannels = { 0 }

\* C6 as stated: after a suspension, the next channel lit is always
\* (index at suspension + 1) mod NUM_COLORS.
C6_Original ==
  [][ (pcLed = "on" /\ pcLed' = "delay" /\ frozenPc # "none")
        => current_color_index = (frozenIdx + 1) % NUM_COLORS ]_vars

\* C6 (amended): while the LED task is Suspended no LED level, index or position
\* changes; it never returns to its initialisation; after a resume the next
\* channel lit is (index at suspension + 1) mod NUM_COLORS, except when the task
\* was suspended between the index step (line 208) and the switch-on (line 210),
\* where the index is already advanced and the next channel lit is that index.
C6_FrozenWhileSuspended ==
  [][ /\ Suspended("led") => UNCHANGED << gpio, current_color_index, pcLed >>
      /\ pcLed # "init" => pcLed' # "init"
      /\ (pcLed = "on" /\ pcLed' = "delay" /\ frozenPc # "none")
           => current_color_index = IF frozenPc = "on"
                                    THEN frozenIdx
                                    ELSE (frozenIdx + 1) % NUM_COLORS ]_vars

\* The LED task was suspended between lines 208 and 210, has been resumed, and is
\* about to switch on the channel of the frozen index.
C6_Witness ==
  /\ pcLed = "on" /\ frozenPc = "on" /\ tstate["led"] = "ready"
  /\ frozenIdx = current_color_index /\ LitChannels = { }

\* C7: oled_task is past its startup poll, or holds a state it read, or has drawn
\* a Run/Suspended label, only when both handles are valid; a step of the startup
\* poll delays and stays in the poll when a handle is NULL, and leaves the poll
\* when both are valid.
C7_NoReadBeforeHandlesValid ==
  /\ [](( \/ pcOled # "startup"
          \/ led_state # "unset" \/ buzzer_state # "unset"
          \/ led_status_str # NoLine \/ buzzer_status_str # NoLine )
          => (xLedTaskHandle # NULL /\ xBuzzerTaskHandle # NULL))
  /\ [][ (pcOled = "startup" /\ CanRun("oled")
            /\ << pcOled, tstate["oled"] >>' # << pcOled, tstate["oled"] >>)
           => IF xLedTaskHandle = NULL \/ xBuzzerTaskHandle = NULL
              THEN pcOled' = "startup" /\ tstate'["oled"] = "blocked"
              ELSE pcOled' = "read_led" ]_vars

\* oled_task has left the startup poll and read the LED task's state.
C7_Witness ==
  /\ pcOled = "read_buz" /\ led_state = "eReady" /\ buzzer_state = "unset"
  /\ xLedTaskHandle = "led" /\ xBuzzerTaskHandle = "buzzer"

\* C8: the frame presented in a status cycle carries, on line 0, the label of the
\* LED state read in that cycle and, on line 1 (y = 10), the label of the buzzer
\* state read in it: Suspended for eSuspended, Run for every other valid state,
\* the handle-null text exactly for an invalid handle.
C8_LabelOfStateRead ==
  pcOled = "delay" =>
    /\ shown[0] = ( IF led_state = "eSuspended" THEN "Task LED: Suspended"
                    ELSE IF led_state \in { "eRunning", "eReady", "eBlocked" }
                    THEN "Task LED: Run"
                    ELSE "LED: Handle Nulo" )
    /\ shown[10] = ( IF buzzer_state = "eSuspended" THEN "Task Buzz: Suspended"
                     ELSE IF buzzer_state \in { "eRunning", "eReady", "eBlocked" }
                     THEN "Task Buzz: Run"
                     ELSE "Buzzer: Handle Nulo" )
    /\ (led_state = "eInvalid") <=> (xLedTaskHandle = NULL)
    /\ (buzzer_state = "eInvalid") <=> (xBuzzerTaskHandle = NULL)

\* The LED task was read Suspended and the buzzer task blocked in a delay.
C8_Witness ==
  /\ pcOled = "delay"
  /\ led_state = "eSuspended" /\ buzzer_state = "eBlocked"
  /\ shown[0] = "Task LED: Suspended" /\ shown[10] = "Task Buzz: Run"

\* C9: a status cycle reads the LED state, reads the buzzer state, then issues
\* clear, draw(line 0), draw(line 1), show, once each and in this order; once the
\* scheduler runs, the display changes only in that step of oled_task.
StatusCycle == << "read_led", "read_buz", "clear", "draw0", "draw1", "show" >>

C9_RenderOrder ==
  /\ [](SchedulerRunning =>
          dispLog = SubSeq(StatusCycle, 1,
                           CASE pcOled = "read_buz" -> 1
                             [] pcOled = "render"   -> 2
                             [] pcOled = "delay"    -> Len(StatusCycle)
                             [] OTHER               -> 0))
  /\ [][ (SchedulerRunning /\ << fb, shown >>' # << fb, shown >>)
           => (pcOled = "render" /\ pcOled' = "delay" /\ CanRun("oled")) ]_vars

\* A complete cycle has been presented, after an earlier frame of another content.
C9_Witness ==
  /\ pcOled = "delay" /\ dispLog = StatusCycle
  /\ shown = fb /\ shown[0] = "Task LED: Suspended"

Halted == pcMain \in { "halt_display", "halt_tasks" }
TaskBodyVars == << ledVars, buzVars, btnVars, oledVars >>
NoTaskBodyStepYet ==
  /\ pcLed = "init" /\ pcBuz = "on" /\ pcBtn = "init" /\ pcOled = "startup"
  /\ \A t \in TaskNames : tstate[t] \in { "none", "ready" }

\* C11: when the display initialisation failed or an xTaskCreate did not return
\* pdPASS, the scheduler is not running and never starts, and no task body has
\* executed a step; after a display failure no task exists; a halted main never
\* leaves its halt and nothing changes any more; a task body steps only once the
\* scheduler runs.
C11_FailureHaltsForever ==
  /\ []( (pcMain = "halt_display" \/ \E t \in TaskNames : status[t] = "fail")
            => (~SchedulerRunning /\ pcMain # "vTaskStartScheduler"
                /\ NoTaskBodyStepYet) )
  /\ []( pcMain = "halt_display"
            => \A t \in TaskNames : tstate[t] = "none" /\ status[t] = "none" )
  /\ []( pcMain = "halt_tasks" => \E t \in TaskNames : status[t] = "fail" )
  /\ [][ /\ Halted => UNCHANGED vars
         /\ (\E t \in TaskNames : status[t] = "fail")
              => \E t \in TaskNames : status'[t] = "fail"
         /\ (TaskBodyVars' # TaskBodyVars /\ pcMain # "buzzer_pwm_init")
              => SchedulerRunning ]_vars

\* main halted with the error frame because only button_task was not created.
C11_Witness ==
  /\ pcMain = "halt_tasks" /\ shown[0] = "Erro Task!"
  /\ status["button"] = "fail"
  /\ \A t \in TaskNames \ { "button" } : status[t] = "pdPASS" /\ tstate[t] = "ready"

\* C12: each of xLedTaskHandle and xBuzzerTaskHandle changes at most once, from
\* NULL to the handle of its own task, in the xTaskCreate step of main for that
\* task and before the scheduler runs; a valid handle keeps its value for ever;
\* no step taken while the scheduler runs (so no task body) changes a handle.
C12_HandlesWrittenOnceByMain ==
  [][ /\ xLedTaskHandle' # xLedTaskHandle
           => /\ xLedTaskHandle = NULL /\ xLedTaskHandle' = "led"
              /\ pcMain = "create_led" /\ status'["led"] = "pdPASS"
      /\ xBuzzerTaskHandle' # xBuzzerTaskHandle
           => /\ xBuzzerTaskHandle = NULL /\ xBuzzerTaskHandle' = "buzzer"
              /\ pcMain = "create_buzzer" /\ status'["buzzer"] = "pdPASS"
      /\ (SchedulerRunning \/ TaskBodyVars' # TaskBodyVars)
           => UNCHANGED << xLedTaskHandle, xBuzzerTaskHandle >> ]_vars

\* Both handles are valid while every task body has run and both controllable
\* tasks have been suspended through them.
C12_Witness ==
  /\ SchedulerRunning /\ xLedTaskHandle = "led" /\ xBuzzerTaskHandle = "buzzer"
  /\ Suspended("led") /\ Suspended("buzzer")
  /\ pcLed = "adv" /\ pcBuz = "off" /\ pcBtn = "delay" /\ pcOled = "render"

\* C13: button_task has a strictly higher priority than the three other tasks;
\* while it is ready no other task executes a step (no position, local, output or
\* display of led_task, buzzer_task or oled_task changes); inside a poll
\* button_task stays ready, so from the expiry of its delay to its next
\* vTaskDelay no other task executes.
C13_ButtonTaskPreempts ==
  /\ [](\A t \in TaskNames \ { "button" } : Priority("button") > Priority(t))
  /\ [](pcBtn \in { "pollB", "delay" } => tstate["button"] = "ready")
  /\ []((SchedulerRunning /\ tstate["button"] = "ready")
           => \A t \in TaskNames \ { "button" } : ~CanRun(t))
  /\ [][ (SchedulerRunning /\ tstate["button"] = "ready")
           => /\ UNCHANGED << ledVars, buzVars, oledVars, dispVars >>
              /\ \A t \in TaskNames \ { "button" } :
                    tstate'[t] # tstate[t]
                      => (tstate[t] = "blocked" \/ PollAStep \/ PollBStep) ]_vars

\* button_task is in the middle of a poll while led_task and oled_task, both
\* ready and in the middle of their loops, wait for it.
C13_Witness ==
  /\ pcBtn = "pollB" /\ tstate["button"] = "ready"
  /\ tstate["led"] = "ready" /\ pcLed = "on"
  /\ tstate["oled"] = "ready" /\ pcOled = "read_buz"
  /\ tstate["buzzer"] = "ready" /\ pcBuz = "off"

BUZZER_CYCLE_MS == BUZZER_ON_MS + BUZZER_OFF_MS
AllRunning == \A t \in TaskNames : RunState(t) = "Running"

PresentStep == pcOled = "render" /\ pcOled' = "delay"

C16_FlagsMirrorRunState ==
  /\ [](led_task_suspended = Suspended("led"))
  /\ [](buzzer_task_suspended = Suspended("buzzer"))
  /\ [][ /\ (PollAStep /\ ButtonEdge(button_a_currently_pressed', button_a_pressed_previously))
            => /\ led_task_suspended = Suspended("led")
               /\ Suspended("led") => tstate'["led"] = "ready"
               /\ ~Suspended("led") => Suspended("led")'
               /\ led_task_suspended' = ~led_task_suspended
         /\ (PollBStep /\ ButtonEdge(button_b_currently_pressed', button_b_pressed_previously))
            => /\ buzzer_task_suspended = Suspended("buzzer")
               /\ Suspended("buzzer") => tstate'["buzzer"] = "ready"
               /\ ~Suspended("buzzer") => Suspended("buzzer")'
               /\ buzzer_task_suspended' = ~buzzer_task_suspended ]_vars

\* A rising edge on A has just resumed the LED task, which had been suspended in
\* its delay, while the buzzer task stays Suspended with its flag set.
C16_Witness ==
  /\ pcBtn = "pollB" /\ ledToggles = 1 /\ button_a_currently_pressed
  /\ ~led_task_suspended /\ tstate["led"] = "ready" /\ pcLed = "off"
  /\ buzzer_task_suspended /\ Suspended("buzzer")

\* C17: once button_task has initialised its locals, the previous level of each
\* button is the level last sampled on it (not pressed before the first sample);
\* it changes only in the poll step of its button, where it takes the new sample
\* with or without a toggle; the initialisation makes both "not pressed", so a
\* button found pressed by a poll that starts with "not pressed", the first one
\* included, toggles its task.
C17_PreviousIsLastSample ==
  /\ [](pcBtn # "init" =>
          /\ button_a_pressed_previously = aLast
          /\ button_b_pressed_previously = bLast
          /\ button_a_pressed_previously = button_a_currently_pressed
          /\ button_b_pressed_previously = button_b_currently_pressed)
  /\ [](pcBtn = "init" => (~aLast /\ ~bLast))
  /\ [][ /\ (pcBtn = "init" /\ pcBtn' = "pollA")
            => (~button_a_pressed_previously' /\ ~button_b_pressed_previously')
         /\ button_a_pressed_previously' # button_a_pressed_previously => PollAStep
         /\ button_b_pressed_previously' # button_b_pressed_previously => PollBStep
         /\ PollAStep => /\ button_a_pressed_previously' = button_a_currently_pressed'
                         /\ button_a_pressed_previously' = aLast'
                         /\ (button_a_currently_pressed' /\ ~button_a_pressed_previously)
                              => RunStateChanged("led")
         /\ PollBStep => /\ button_b_pressed_previously' = button_b_currently_pressed'
                         /\ button_b_pressed_previously' = bLast'
                         /\ (button_b_currently_pressed' /\ ~button_b_pressed_previously)
                              => RunStateChanged("buzzer") ]_vars

\* Button A was held when button_task started: its first poll, made before any
\* other task has run, suspended the LED task; button B was not pressed.
C17_Witness ==
  /\ pcBtn = "delay" /\ button_a_pressed_previously /\ ~button_b_pressed_previously
  /\ Suspended("led") /\ pcLed = "init" /\ ledToggles = 1
  /\ pcBuz = "on" /\ tstate["buzzer"] = "ready" /\ pcOled = "startup"

ReadLedStep == pcOled = "read_led" /\ pcOled' = "read_buz"
ReadBuzStep == pcOled = "read_buz" /\ pcOled' = "render"

\* C18: the state a status cycle reads is the task's run-state at the moment of
\* the read, and stays the cycle's value until the frame is presented, whatever
\* button_task does in between; the frame presented carries on each line the
\* whole label of the state read in this cycle (never a line of an earlier cycle
\* or a half-drawn frame); and when a task's run-state has not changed between
\* the read and the presentation, the label presented is its actual run-state.
C18_LabelsFromThisCyclesReads ==
  /\ []((pcOled \in { "read_buz", "render" } /\ ~ledChanged)
          => ((led_state = "eSuspended") <=> Suspended("led")))
  /\ []((pcOled = "render" /\ ~buzChanged)
          => ((buzzer_state = "eSuspended") <=> Suspended("buzzer")))
  /\ [][ /\ ReadLedStep => ((led_state' = "eSuspended") <=> Suspended("led"))
         /\ ReadBuzStep => ((buzzer_state' = "eSuspended") <=> Suspended("buzzer"))
         /\ led_state' # led_state => ReadLedStep
         /\ buzzer_state' # buzzer_state => ReadBuzStep
         /\ PresentStep =>
              /\ shown' = fb'
              /\ shown'[0] = IF led_state = "eSuspended"
                             THEN "Task LED: Suspended" ELSE "Task LED: Run"
              /\ shown'[10] = IF buzzer_state = "eSuspended"
                              THEN "Task Buzz: Suspended" ELSE "Task Buzz: Run"
              /\ ~ledChanged
                   => ((shown'[0] = "Task LED: Suspended") <=> Suspended("led"))
              /\ ~buzChanged
                   => ((shown'[10] = "Task Buzz: Suspended") <=> Suspended("buzzer")) ]_vars

\* button_task has preempted oled_task after its reads: the LED task, read as
\* ready, is now Suspended, and the buzzer task, read as Suspended, runs again;
\* the frame about to be presented is one cycle stale on both lines.
C18_Witness ==
  /\ pcOled = "render" /\ ledChanged /\ buzChanged
  /\ led_state = "eReady" /\ Suspended("led")
  /\ buzzer_state = "eSuspended" /\ ~Suspended("buzzer")

BuzzerWrite == pcBuz \in { "on", "off" } /\ pcBuz' # pcBuz

\* C19: the duty level is always the last value written, which the position of
\* buzzer_task determines: zero before the first write and after each second
\* one, active after each first one; every write of buzzer_task changes the
\* level (active over zero, zero over active), the first being active; the task
\* passes through its four statements in order, also across a suspension; no
\* other task writes the level, and while buzzer_task is Suspended neither the
\* level nor the position changes, at whichever level it was suspended.
C19_DutyAlternates ==
  /\ []((pcMain # "SSD1306_Init" /\ pcMain # "buzzer_pwm_init") =>
          duty = IF pcBuz \in { "delay_on", "off" } THEN BUZZER_DUTY_ON ELSE 0)
  /\ [][ /\ BuzzerWrite =>
              /\ duty' # duty
              /\ duty' = IF pcBuz = "on" THEN BUZZER_DUTY_ON ELSE 0
              /\ CanRun("buzzer") /\ ~Suspended("buzzer")
         /\ (SchedulerRunning /\ duty' # duty) => BuzzerWrite
         /\ pcBuz' # pcBuz =>
              pcBuz' = CASE pcBuz = "on"        -> "delay_on"
                         [] pcBuz = "delay_on"  -> "off"
                         [] pcBuz = "off"       -> "delay_off"
                         [] pcBuz = "delay_off" -> "on"
         /\ Suspended("buzzer") => UNCHANGED << duty, pcBuz >> ]_vars

\* The buzzer task is Suspended between its write of the active level and its
\* write of zero, the button released again: the buzzer keeps sounding, while
\* the frame on the display, presented before, still says Run.
C19_Witness ==
  /\ Suspended("buzzer") /\ duty = BUZZER_DUTY_ON /\ pcBuz = "off"
  /\ bParity = 1 /\ buzSuspAtFirst = FALSE /\ ~button_b_currently_pressed
  /\ pcOled = "delay" /\ shown[10] = "Task Buzz: Run"

HandleNullLabels == { "LED: Handle Nulo", "Buzzer: Handle Nulo" }

\* C20: once oled_task is past its startup poll both handles are valid, no state
\* it holds is the invalid one, no handle-null text is in a label, in the buffer
\* or on the display, and every frame it has presented shows Run or Suspended on
\* both lines; before that the display shows no handle-null text either.
C20_NoInvalidHandleBranch ==
  /\ \A y \in DOMAIN shown : shown[y] \notin HandleNullLabels /\ fb[y] \notin HandleNullLabels
  /\ led_status_str \notin HandleNullLabels /\ buzzer_status_str \notin HandleNullLabels
  /\ led_state # "eInvalid" /\ buzzer_state # "eInvalid"
  /\ pcOled # "startup" => (xLedTaskHandle = "led" /\ xBuzzerTaskHandle = "buzzer")
  /\ pcOled \in { "read_buz", "render", "delay" }
       => led_state \in { "eReady", "eBlocked", "eSuspended" }
  /\ pcOled \in { "render", "delay" }
       => buzzer_state \in { "eReady", "eBlocked", "eSuspended" }
  /\ (led_status_str # NoLine \/ pcOled = "delay") =>
       /\ shown[0] \in { "Task LED: Run", "Task LED: Suspended" }
       /\ shown[10] \in { "Task Buzz: Run", "Task Buzz: Suspended" }

\* A second frame has been presented: the LED task runs again after a
\* suspension shown by the frame before, and the buzzer task is Suspended.
C20_Witness ==
  /\ pcOled = "delay" /\ xLedTaskHandle = "led" /\ xBuzzerTaskHandle = "buzzer"
  /\ led_state = "eBlocked" /\ buzzer_state = "eSuspended" /\ aParity = 0 /\ aLast
  /\ shown[0] = "Task LED: Run" /\ shown[10] = "Task Buzz: Suspended"

====
